---- MODULE Spec2Model ----
(***************************************************************************)
(* go-envsync: the provider registry (pkg/providers/registry) and the      *)
(* client load engine (pkg/client).                                        *)
(*                                                                         *)
(* Go strings are modelled as sequences of one-character strings, so that  *)
(* strings.TrimSpace and strings.SplitN are computed, not assumed.  Go     *)
(* maps are modelled as functions whose DOMAIN is the key set.             *)
(***************************************************************************)
EXTENDS Integers, Sequences, FiniteSets, TLC

VARIABLES
    providers,   \* Registry.providers : name -> ProviderInfo
    aliases,     \* Registry.aliases   : alias -> name
    regRet,      \* the registry call that returned last: [op, err]
    cProviders,  \* Client.providers : name -> Provider instance
    validator,   \* Client.validator : "nil" or a Validator
    pc,          \* where the caller's Load is: idle, loop, validate, size, returned
    opts,        \* the LoadOptions of the Load in progress
    idx,         \* the index in opts.Sources of the source the loop is at
    env,         \* the Environment Load is building (env.Data is the accumulator)
    ret,         \* what Load returned: [env, err]
    calls,       \* the provider calls Load has made, in order
    vcalls,      \* the mappings Load has passed to validator.Validate, in order
    ctxDone,     \* the context.Context of the caller's Load is cancelled or expired
    rd,          \* the read of the Registry whose result the caller holds
    mutex,       \* Registry.mutex: the goroutine holding the write lock, the
                 \* goroutines holding the read lock
    th,          \* per goroutine: the Registry method it runs and where it is
    held,        \* names whose stored *ProviderInfo the caller of Register
                 \* still holds a pointer to
    lastAdd,     \* the arguments of the AddProvider call that has just returned
    prev,        \* an earlier Load on the Client: its options, what the
                 \* providers and the validator answered, what it returned
    exporter,    \* Client.exporter : "nil" or an Exporter
    ecalls,      \* the calls of exporter.Export made for the returned Environment
    eret,         \* the Environment.Export call that returned last: [op, dest, err]
    ld,           \* the Load call of each of two goroutines on the one Client
    heap,          \* the Environment objects the Load calls have allocated
    flt           \* the last call of filterProviders: filter, input and output

regVars == <<providers, aliases, regRet>>

clientVars == <<cProviders, validator, pc, opts, idx, env, ret, calls, vcalls>>

\* The state only some of the specifications below let change.
auxVars == <<ctxDone, rd, mutex, th, held, lastAdd, prev, exporter, ecalls, eret, ld, heap, flt>>

\* What a step about the context, about a read, about a goroutine leaves alone.
ctxFrame == <<regVars, clientVars, rd, mutex, th, held, lastAdd, prev, exporter, ecalls, eret, ld, heap, flt>>

readFrame == <<regVars, clientVars, ctxDone, mutex, th, held, lastAdd, prev, exporter, ecalls, eret, ld, heap, flt>>

lockFrame == <<regRet, clientVars, ctxDone, rd, held, lastAdd, prev, exporter, ecalls, eret, ld, heap, flt>>

pointerFrame == <<ctxDone, mutex, th, lastAdd, prev, exporter, ecalls, eret, ld, heap, flt>>

bindFrame == <<ctxDone, rd, mutex, th, held, prev, exporter, ecalls, eret, ld, heap, flt>>

detFrame == <<ctxDone, rd, mutex, th, held, lastAdd, exporter, ecalls, eret, ld, heap, flt>>

envFrame == <<ctxDone, rd, mutex, th, held, lastAdd, prev, ld, heap, flt>>

parFrame == <<ctxDone, rd, mutex, th, held, lastAdd, prev, exporter, ecalls, eret, flt>>

filterFrame == <<ctxDone, rd, mutex, th, held, lastAdd, prev, exporter, ecalls, eret, ld, heap>>

vars == <<providers, aliases, regRet,
          cProviders, validator, pc, opts, idx, env, ret, calls, vcalls,
          ctxDone, rd, mutex, th, held, lastAdd, prev, exporter, ecalls, eret, ld, heap, flt>>

----------------------------------------------------------------------------
(* Go map primitives *)

EmptyMap == <<>>

\* m[k] = v
Put(m, k, v) == [x \in (DOMAIN m) \cup {k} |-> IF x = k THEN v ELSE m[x]]

\* delete(m, k)
Delete(m, k) == [x \in (DOMAIN m) \ {k} |-> m[x]]

----------------------------------------------------------------------------
(* strings.TrimSpace *)

RECURSIVE TrimLeft(_)
TrimLeft(s) == IF s # <<>> /\ Head(s) = " " THEN TrimLeft(Tail(s)) ELSE s

RECURSIVE TrimRight(_)
TrimRight(s) ==
    IF s # <<>> /\ s[Len(s)] = " " THEN TrimRight(SubSeq(s, 1, Len(s) - 1)) ELSE s

TrimSpace(s) == TrimRight(TrimLeft(s))

----------------------------------------------------------------------------
(* Registry: constants and inputs *)

\* registry.MaxProviders is 100 in the source; the model scales it down so
\* that the "registry is full" branch is reached.
RegistryMaxProviders == 2

DefaultProviderPriority == 50

HighPriority == 10

\* Provider names callers pass to Register and Unregister: two usable names
\* and a blank one.
RegNames == { <<"a">>, <<"f">>, <<" ">> }

\* Alias strings callers put into ProviderInfo.Aliases: "f" is also a provider
\* name, " g" is "g" with surrounding whitespace, " " is blank.
AliasStrings == { <<"f">>, <<"g">>, <<" ", "g">>, <<" ">> }

\* Alias lists of length 0, 1 and 2 (duplicates included).
AliasLists ==
    {<<>>} \cup {<<x>> : x \in AliasStrings}
           \cup {<<x, y>> : x \in AliasStrings, y \in AliasStrings}

\* Values of ProviderInfo.RequiredConfig: no key, one key, two keys.
RequiredConfigs == { <<>>, <<"k1">>, <<"k1", "k2">> }

\* The config maps callers pass to CreateProvider (a nil map reads like the
\* empty one).
Configs == { EmptyMap, [k \in {"k1"} |-> "v"], [k \in {"k2"} |-> "v"],
             [k \in {"k1", "k2"} |-> "v"] }

\* A nil *ProviderInfo.
NilInfo == [Name |-> <<>>, Aliases |-> <<>>, Factory |-> "nil", Priority |-> 0,
            RequiredConfig |-> <<>>, Description |-> <<>>, isNil |-> TRUE]

\* The non-nil *ProviderInfo values callers pass to Register: every name with
\* every alias list; every name without aliases with a nil or non-nil
\* factory, an unset or set priority and every RequiredConfig; every name
\* with the alias "g" and a required key.
ProviderInfos ==
    [Name : RegNames, Aliases : AliasLists, Factory : {"factory"},
     Priority : {0}, RequiredConfig : {<<>>}, Description : {<<>>}, isNil : {FALSE}]
    \cup
    [Name : RegNames, Aliases : {<<>>}, Factory : {"nil", "factory"},
     Priority : {0, HighPriority}, RequiredConfig : RequiredConfigs,
     Description : {<<>>}, isNil : {FALSE}]
    \cup
    [Name : RegNames, Aliases : {<< <<"g">> >>}, Factory : {"factory"},
     Priority : {0}, RequiredConfig : {<<"k1">>}, Description : {<<>>}, isNil : {FALSE}]

----------------------------------------------------------------------------
(* Registry operations *)

\* The alias loop of Register: returns the maps as the loop leaves them and
\* the error it returns ("nil" when the loop runs to its end).
RECURSIVE RegisterAliases(_, _, _, _)
RegisterAliases(info, i, provs, als) ==
    IF i > Len(info.Aliases)
    THEN [providers |-> provs, aliases |-> als, err |-> "nil"]
    ELSE LET alias == TrimSpace(info.Aliases[i]) IN
         IF alias = <<>>
         THEN RegisterAliases(info, i + 1, provs, als)
         ELSE IF alias \in DOMAIN provs
         THEN [providers |-> provs, aliases |-> als,
               err |-> "alias conflicts with existing provider"]
         ELSE IF alias \in DOMAIN als
         THEN [providers |-> provs, aliases |-> als,
               err |-> "alias already registered"]
         ELSE RegisterAliases(info, i + 1, provs, Put(als, alias, info.Name))

\* A capacity check that lets one provider too many in.
RegistryFullOffByOne(provs) == Cardinality(DOMAIN provs) > RegistryMaxProviders

\* if len(r.providers) >= MaxProviders
RegistryFull(provs) == Cardinality(DOMAIN provs) >= RegistryMaxProviders

\* Registry.Register as a function of the maps before the call.
RegisterResult(info, provs, als) ==
    IF info.isNil
    THEN [providers |-> provs, aliases |-> als, err |-> "provider info cannot be nil"]
    ELSE IF TrimSpace(info.Name) = <<>>
    THEN [providers |-> provs, aliases |-> als, err |-> "provider name cannot be empty"]
    ELSE IF info.Factory = "nil"
    THEN [providers |-> provs, aliases |-> als, err |-> "provider factory cannot be nil"]
    ELSE IF RegistryFull(provs)
    THEN [providers |-> provs, aliases |-> als, err |-> "registry is full"]
    ELSE IF info.Name \in DOMAIN provs
    THEN [providers |-> provs, aliases |-> als, err |-> "provider already registered"]
    ELSE LET stored == [Name     |-> info.Name,
                        Aliases  |-> info.Aliases,
                        Factory  |-> info.Factory,
                        Priority |-> IF info.Priority = 0
                                     THEN DefaultProviderPriority
                                     ELSE info.Priority,
                        RequiredConfig |-> info.RequiredConfig,
                        Description |-> info.Description]
         IN  RegisterAliases(info, 1, Put(provs, info.Name, stored), als)

\* The alias loop of Unregister: delete(r.aliases, alias) for every entry of
\* the stored info.Aliases, as stored.
RECURSIVE RemoveAliases(_, _, _)
RemoveAliases(list, i, als) ==
    IF i > Len(list) THEN als
    ELSE RemoveAliases(list, i + 1, Delete(als, list[i]))

\* Registry.Unregister as a function of the maps before the call.
UnregisterResult(name, provs, als) ==
    IF name \notin DOMAIN provs
    THEN [providers |-> provs, aliases |-> als, err |-> "provider not found"]
    ELSE [providers |-> Delete(provs, name),
          aliases   |-> RemoveAliases(provs[name].Aliases, 1, als),
          err       |-> "nil"]

\* Registry.resolveProviderName
resolveProviderName(name) ==
    IF name \in DOMAIN aliases THEN aliases[name] ELSE name

\* Registry.IsProviderRegistered
IsProviderRegistered(name) == resolveProviderName(name) \in DOMAIN providers

\* resolveProviderName on given maps.
resolveName(name, als) == IF name \in DOMAIN als THEN als[name] ELSE name

\* The validateConfig of a CreateProvider that checks the first required key
\* only.
validateConfigFirstKey(required, i, config) ==
    IF i > Len(required) \/ i > 1 THEN ""
    ELSE IF required[i] \notin DOMAIN config THEN required[i]
    ELSE ""

\* Registry.validateConfig: the first key of info.RequiredConfig that config
\* does not hold, "" when it holds them all.
RECURSIVE validateConfig(_, _, _)
validateConfig(required, i, config) ==
    IF i > Len(required) THEN ""
    ELSE IF required[i] \notin DOMAIN config THEN required[i]
    ELSE validateConfig(required, i + 1, config)

NoInfo == [Name |-> <<>>, Aliases |-> <<>>, Factory |-> "nil", Priority |-> 0,
           RequiredConfig |-> <<>>, Description |-> <<>>]

\* Registry.CreateProvider on given maps; factoryOk is whether the factory,
\* when it is called, returns a provider.  selected is the key of the
\* ProviderInfo the call reads, factoryCalls the calls of info.Factory.
CreateProviderResult(name, config, provs, als, factoryOk) ==
    LET providerName == resolveName(name, als) IN
    IF providerName \notin DOMAIN provs
    THEN [err |-> "provider not found", selected |-> <<>>, info |-> NoInfo,
          factoryCalls |-> <<>>]
    ELSE LET info == provs[providerName] IN
         IF validateConfig(info.RequiredConfig, 1, config) # ""
         THEN [err |-> "configuration validation failed",
               selected |-> providerName, info |-> info, factoryCalls |-> <<>>]
         ELSE [err |-> IF factoryOk THEN "nil" ELSE "failed to create provider",
               selected |-> providerName, info |-> info,
               factoryCalls |-> << [factory |-> info.Factory,
                                    of |-> info.Name,
                                    config |-> config] >>]

\* Registry.GetProvider on given maps: a copy of the stored ProviderInfo.
GetProviderResult(name, provs, als) ==
    LET providerName == resolveName(name, als) IN
    IF providerName \notin DOMAIN provs
    THEN [err |-> "provider not found", info |-> NoInfo]
    ELSE [err |-> "nil",
          info |-> [Name           |-> provs[providerName].Name,
                    Aliases        |-> provs[providerName].Aliases \o <<>>,
                    Factory        |-> provs[providerName].Factory,
                    Priority       |-> provs[providerName].Priority,
                    RequiredConfig |-> provs[providerName].RequiredConfig \o <<>>,
                    Description    |-> provs[providerName].Description]]

\* Registry.IsProviderRegistered on given maps.
IsRegisteredIn(name, provs, als) == resolveName(name, als) \in DOMAIN provs

\* The orders in which a range over a map with key set S may visit the keys.
Orders(S) ==
    { o \in [1..Cardinality(S) -> S] :
        \A i, j \in 1..Cardinality(S) : i # j => o[i] # o[j] }

\* Registry.GetProviderNames on given maps: the provider names, then the
\* aliases, each in map iteration order.
GetProviderNames(provs, als) ==
    { n \o a : n \in Orders(DOMAIN provs), a \in Orders(DOMAIN als) }

----------------------------------------------------------------------------
(* filterProviders of the providers command *)

UpperLetters ==
    << "A", "B", "C", "D", "E", "F", "G", "H", "I", "J", "K", "L", "M",
       "N", "O", "P", "Q", "R", "S", "T", "U", "V", "W", "X", "Y", "Z" >>

LowerLetters ==
    << "a", "b", "c", "d", "e", "f", "g", "h", "i", "j", "k", "l", "m",
       "n", "o", "p", "q", "r", "s", "t", "u", "v", "w", "x", "y", "z" >>

\* strings.ToLower
ToLower(s) ==
    [i \in DOMAIN s |->
        IF \E j \in DOMAIN UpperLetters : UpperLetters[j] = s[i]
        THEN LowerLetters[CHOOSE j \in DOMAIN UpperLetters : UpperLetters[j] = s[i]]
        ELSE s[i]]

\* strings.Contains
Contains(s, substr) ==
    \E i \in 0..(Len(s) - Len(substr)) : SubSeq(s, i + 1, i + Len(substr)) = substr

\* The body of the loop of filterProviders: what one entry of allProviders
\* makes the loop append to filtered.
FilterOne(providerName, filterLower, provs, als) ==
    LET got == GetProviderResult(providerName, provs, als)
        providerInfo == got.info
    IN  IF got.err # "nil" THEN <<>>
        ELSE IF Contains(ToLower(providerInfo.Name), filterLower)
        THEN <<providerName>>
        ELSE (IF \E i \in DOMAIN providerInfo.Aliases :
                     Contains(ToLower(providerInfo.Aliases[i]), filterLower)
              THEN <<providerName>> ELSE <<>>)
             \o
             (IF Contains(ToLower(providerInfo.Description), filterLower)
              THEN <<providerName>> ELSE <<>>)

\* filterProviders(allProviders, filter) against the registry maps.
RECURSIVE FilterLoop(_, _, _, _)
FilterLoop(allProviders, filterLower, provs, als) ==
    IF allProviders = <<>> THEN <<>>
    ELSE FilterOne(Head(allProviders), filterLower, provs, als)
            \o FilterLoop(Tail(allProviders), filterLower, provs, als)

filterProviders(allProviders, filter, provs, als) ==
    FilterLoop(allProviders, ToLower(filter), provs, als)

\* filterProviders has not been called.
NoFilter == [called |-> FALSE, filter |-> <<>>, allProviders |-> <<>>,
             filtered |-> <<>>]

\* runProvidersCommand with a filter: registry.GetProviderNames(), then
\* filterProviders.
FilterProviders(filter) ==
    /\ ~flt.called
    /\ \E providerNames \in GetProviderNames(providers, aliases) :
          flt' = [called |-> TRUE, filter |-> filter,
                  allProviders |-> providerNames,
                  filtered |-> filterProviders(providerNames, filter,
                                               providers, aliases)]
    /\ UNCHANGED <<regVars, clientVars, filterFrame>>

\* The command has printed the list and returned.
FilterDone ==
    /\ flt.called
    /\ flt' = NoFilter
    /\ UNCHANGED <<regVars, clientVars, filterFrame>>

Register(info) ==
    LET r == RegisterResult(info, providers, aliases) IN
    /\ providers' = r.providers
    /\ aliases' = r.aliases
    /\ regRet' = [op |-> "Register", err |-> r.err]
    /\ UNCHANGED clientVars

Unregister(name) ==
    LET r == UnregisterResult(name, providers, aliases) IN
    /\ providers' = r.providers
    /\ aliases' = r.aliases
    /\ regRet' = [op |-> "Unregister", err |-> r.err]
    /\ UNCHANGED clientVars

\* The names every read of the Registry accepts.
LookupNames == RegNames \cup AliasStrings \cup {<<"g">>}

\* The caller holds no result of a read.
NoRead == [op |-> "none", name |-> <<>>, config |-> EmptyMap,
           err |-> "nil", selected |-> <<>>, factoryCalls |-> <<>>,
           info |-> NoInfo]

\* Registry.CreateProvider(name, config): the caller keeps what it returned
\* until ReadDone.
CreateProvider(name, config) ==
    /\ rd.op = "none"
    /\ \E factoryOk \in BOOLEAN :
          LET r == CreateProviderResult(name, config, providers, aliases, factoryOk)
          IN  rd' = [op |-> "CreateProvider", name |-> name, config |-> config,
                     err |-> r.err, selected |-> r.selected,
                     factoryCalls |-> r.factoryCalls, info |-> NoInfo]
    /\ UNCHANGED readFrame

\* The caller drops the result of its read.
ReadDone ==
    /\ rd.op # "none"
    /\ rd' = NoRead
    /\ UNCHANGED readFrame

----------------------------------------------------------------------------
(* The ProviderInfo values of the Registry as Go objects: Register stores the
   pointer it is given (r.providers[info.Name] = info), GetProvider and
   ListProviders build new values. *)

\* The copy GetProvider and ListProviders make of a stored ProviderInfo.
CopyInfo(info) ==
    [Name           |-> info.Name,
     Aliases        |-> info.Aliases \o <<>>,
     Factory        |-> info.Factory,
     Priority       |-> info.Priority,
     RequiredConfig |-> info.RequiredConfig \o <<>>,
     Description    |-> info.Description]

\* Registry.ListProviders on a given map: the copies, in map iteration order.
ListProvidersResult(provs) ==
    { [i \in DOMAIN o |-> CopyInfo(provs[o[i]])] : o \in Orders(DOMAIN provs) }

\* Register(info) by a caller that keeps its pointer info: when line 105 is
\* reached the map holds that same pointer.
RegisterKeep(info) ==
    /\ rd.op = "none"
    /\ Register(info)
    /\ held' = IF info.Name \in DOMAIN providers' /\ info.Name \notin DOMAIN providers
               THEN held \cup {info.Name}
               ELSE held
    /\ UNCHANGED <<rd, pointerFrame>>

\* Unregister(name): the map drops its pointer.
UnregisterDrop(name) ==
    /\ rd.op = "none"
    /\ Unregister(name)
    /\ held' = IF name \in DOMAIN providers THEN held \ {name} ELSE held
    /\ UNCHANGED <<rd, pointerFrame>>

\* The values a caller assigns to fields of a ProviderInfo it has a pointer to.
FieldWrites ==
    { [field |-> "Priority", value |-> 1],
      [field |-> "Aliases", value |-> << <<"x">> >>],
      [field |-> "RequiredConfig", value |-> <<"k2">>] }

WriteField(info, w) ==
    IF w.field = "Priority" THEN [info EXCEPT !.Priority = w.value]
    ELSE IF w.field = "Aliases" THEN [info EXCEPT !.Aliases = w.value]
    ELSE [info EXCEPT !.RequiredConfig = w.value]

\* The caller of Register assigns to a field of the ProviderInfo it passed:
\* the object is the one the map points to.
MutatePassedInfo(name, w) ==
    /\ rd.op = "none"
    /\ name \in held
    /\ providers' = [providers EXCEPT ![name] = WriteField(@, w)]
    /\ UNCHANGED <<aliases, regRet, clientVars, rd, held>>
    /\ UNCHANGED pointerFrame

\* Registry.GetProvider(name): the caller keeps the returned copy.
GetProvider(name) ==
    /\ rd.op = "none"
    /\ LET r == GetProviderResult(name, providers, aliases)
       IN  rd' = [NoRead EXCEPT !.op = "GetProvider", !.name = name,
                                !.err = r.err, !.info = r.info]
    /\ UNCHANGED readFrame

\* The caller assigns to a field of the ProviderInfo GetProvider returned.
MutateReturnedInfo(w) ==
    /\ rd.op = "GetProvider"
    /\ rd.err = "nil"
    /\ rd' = [rd EXCEPT !.info = WriteField(@, w)]
    /\ UNCHANGED readFrame

----------------------------------------------------------------------------
(* The Registry under concurrent callers.  Every method is cut at its reads
   and writes of the two maps; r.mutex is a sync.RWMutex. *)

Threads == {"t1", "t2"}

WriteOps == {"Register", "Unregister"}

ReadOps == {"CreateProvider", "GetProvider", "ListProviders",
            "GetProviderNames", "IsProviderRegistered"}

\* The ProviderInfo values and names the concurrent callers pass.
ConcInfos ==
    [Name : { <<"a">>, <<"f">> },
     Aliases : { <<>>, << <<"g">> >>, << <<"g">>, <<"f">> >> },
     Factory : {"factory"}, Priority : {0}, RequiredConfig : {<<>>},
     Description : {<<>>}, isNil : {FALSE}]
    \cup {NilInfo}

ConcNames == { <<"a">>, <<"f">>, <<"g">> }

IdleThread == [pc |-> "idle", op |-> "none", info |-> NoInfo, name |-> <<>>,
               i |-> 0, err |-> "nil", seen |-> <<>>]

\* Methods that take the read lock only.
LockKindAllRead(op) == "RLock"

\* r.mutex.Lock() in Register and Unregister, r.mutex.RLock() in the others.
LockKind(op) == IF op \in WriteOps THEN "Lock" ELSE "RLock"

\* sync.RWMutex: Lock waits until no goroutine holds the lock, RLock until no
\* goroutine holds the write lock.
CanLock(kind) ==
    IF kind = "Lock" THEN mutex.w = "none" /\ mutex.r = {}
    ELSE mutex.w = "none"

Locked(kind, t) ==
    IF kind = "Lock" THEN [mutex EXCEPT !.w = t]
    ELSE [mutex EXCEPT !.r = @ \cup {t}]

Unlocked(kind, t) ==
    IF kind = "Lock" THEN [mutex EXCEPT !.w = "none"]
    ELSE [mutex EXCEPT !.r = @ \ {t}]

\* A goroutine calls Register: the checks ahead of r.mutex.Lock() return
\* without the lock.
CallRegister(t, info) ==
    /\ th[t].pc = "idle"
    /\ th' = [th EXCEPT ![t] =
                IF info.isNil
                THEN [IdleThread EXCEPT !.err = "provider info cannot be nil"]
                ELSE IF TrimSpace(info.Name) = <<>>
                THEN [IdleThread EXCEPT !.err = "provider name cannot be empty"]
                ELSE IF info.Factory = "nil"
                THEN [IdleThread EXCEPT !.err = "provider factory cannot be nil"]
                ELSE [IdleThread EXCEPT !.pc = "lock", !.op = "Register",
                                        !.info = info, !.name = info.Name]]
    /\ UNCHANGED <<providers, aliases, mutex>>
    /\ UNCHANGED lockFrame

\* A goroutine calls Unregister or one of the reading methods.
CallByName(t, op, name) ==
    /\ th[t].pc = "idle"
    /\ th' = [th EXCEPT ![t] = [IdleThread EXCEPT !.pc = "lock", !.op = op,
                                                  !.name = name]]
    /\ UNCHANGED <<providers, aliases, mutex>>
    /\ UNCHANGED lockFrame

\* r.mutex.Lock() or r.mutex.RLock() returns.
Acquire(t) ==
    /\ th[t].pc = "lock"
    /\ CanLock(LockKind(th[t].op))
    /\ mutex' = Locked(LockKind(th[t].op), t)
    /\ th' = [th EXCEPT ![t].pc = "cs"]
    /\ UNCHANGED <<providers, aliases>>
    /\ UNCHANGED lockFrame

\* Register inside the lock: the capacity and name checks and the insertion
\* of the provider (i = 0), then one alias per step.
RegisterStep(t) ==
    LET info == th[t].info
        i == th[t].i
        fail(e) == /\ th' = [th EXCEPT ![t].pc = "unlock", ![t].err = e]
                   /\ UNCHANGED <<providers, aliases>>
    IN
    /\ th[t].pc = "cs"
    /\ th[t].op = "Register"
    /\ IF i = 0
       THEN IF RegistryFull(providers) THEN fail("registry is full")
            ELSE IF info.Name \in DOMAIN providers
            THEN fail("provider already registered")
            ELSE /\ providers' =
                      Put(providers, info.Name,
                          [Name     |-> info.Name,
                           Aliases  |-> info.Aliases,
                           Factory  |-> info.Factory,
                           Priority |-> IF info.Priority = 0
                                        THEN DefaultProviderPriority
                                        ELSE info.Priority,
                           RequiredConfig |-> info.RequiredConfig,
                           Description |-> info.Description])
                 /\ th' = [th EXCEPT ![t].i = 1]
                 /\ UNCHANGED aliases
       ELSE IF i > Len(info.Aliases)
       THEN /\ th' = [th EXCEPT ![t].pc = "unlock"]
            /\ UNCHANGED <<providers, aliases>>
       ELSE LET alias == TrimSpace(info.Aliases[i]) IN
            IF alias = <<>>
            THEN /\ th' = [th EXCEPT ![t].i = i + 1]
                 /\ UNCHANGED <<providers, aliases>>
            ELSE IF alias \in DOMAIN providers
            THEN fail("alias conflicts with existing provider")
            ELSE IF alias \in DOMAIN aliases
            THEN fail("alias already registered")
            ELSE /\ aliases' = Put(aliases, alias, info.Name)
                 /\ th' = [th EXCEPT ![t].i = i + 1]
                 /\ UNCHANGED providers
    /\ UNCHANGED mutex
    /\ UNCHANGED lockFrame

\* Unregister inside the lock: the lookup (i = 0), one alias per step, then
\* the provider.
UnregisterStep(t) ==
    LET i == th[t].i IN
    /\ th[t].pc = "cs"
    /\ th[t].op = "Unregister"
    /\ IF i = 0
       THEN IF th[t].name \notin DOMAIN providers
            THEN /\ th' = [th EXCEPT ![t].pc = "unlock",
                                     ![t].err = "provider not found"]
                 /\ UNCHANGED <<providers, aliases>>
            ELSE /\ th' = [th EXCEPT ![t].i = 1,
                                     ![t].info = providers[th[t].name]]
                 /\ UNCHANGED <<providers, aliases>>
       ELSE IF i <= Len(th[t].info.Aliases)
       THEN /\ aliases' = Delete(aliases, th[t].info.Aliases[i])
            /\ th' = [th EXCEPT ![t].i = i + 1]
            /\ UNCHANGED providers
       ELSE /\ providers' = Delete(providers, th[t].name)
            /\ th' = [th EXCEPT ![t].pc = "unlock"]
            /\ UNCHANGED aliases
    /\ UNCHANGED mutex
    /\ UNCHANGED lockFrame

\* A reading method inside the lock: it reads the maps (i = 0: the alias
\* lookup of resolveProviderName, the first range loop) and reads them again
\* (i = 1: the provider lookup, the second range loop).
ReadStep(t) ==
    /\ th[t].pc = "cs"
    /\ th[t].op \in ReadOps
    /\ IF th[t].i = 0
       THEN th' = [th EXCEPT ![t].i = 1, ![t].seen = <<providers, aliases>>]
       ELSE th' = [th EXCEPT ![t].pc = "unlock",
                             ![t].err = IF th[t].seen = <<providers, aliases>>
                                        THEN "nil" ELSE "maps changed"]
    /\ UNCHANGED <<providers, aliases, mutex>>
    /\ UNCHANGED lockFrame

\* defer r.mutex.Unlock() or defer r.mutex.RUnlock(): the method returns.
Release(t) ==
    /\ th[t].pc = "unlock"
    /\ mutex' = Unlocked(LockKind(th[t].op), t)
    /\ th' = [th EXCEPT ![t] = IdleThread]
    /\ UNCHANGED <<providers, aliases>>
    /\ UNCHANGED lockFrame

----------------------------------------------------------------------------
(* Client: constants and inputs *)

DefaultProviderName == <<"d", "e", "f", "a", "u", "l", "t">>

\* client.MaxEnvironmentKeys is 10000 in the source; the model scales it down
\* so that the key-count check is reached.
MaxEnvironmentKeys == 1

\* client.MaxProviders is 50 in the source; the model scales it down so that
\* the cap of AddProvider is reached.
ClientMaxProviders == 1

SourceProviderParts == 2

MinSourceParts == 2

MergeStrategies == {"Override", "Preserve", "Error"}

LocalName == <<"l", "o", "c", "a", "l">>

\* Names callers bind providers to with AddProvider.
ClientNames == { LocalName, <<"b">>, DefaultProviderName }

\* Provider instances callers construct.
Instances == {"P1", "P2"}

\* Source specifiers callers pass: "local:p", the bare "q" and "g:p", whose
\* provider name is bound on no Client.
Specifiers == { LocalName \o <<":", "p">>, <<"q">>, <<"g", ":", "p">> }

\* LoadOptions.Sources: lists of length 0 to 3.
SourceLists ==
    {<<>>} \cup {<<x>> : x \in Specifiers}
           \cup {<<x, y>> : x \in Specifiers, y \in Specifiers}
           \cup {<<x, y, z>> : x \in Specifiers, y \in Specifiers, z \in Specifiers}

Keys == {"K1", "K2"}

Values == {"1", "2"}

MaxKeyLength == 256

MaxValueLength == 4096

\* len(key) of the Go string a key of the model stands for: "K1" is a short
\* key, "K2" a key one byte longer than MaxKeyLength.
KeyLength(k) == IF k = "K2" THEN MaxKeyLength + 1 ELSE 2

\* len(value) of the Go string a value of the model stands for: "1" is a
\* short value, "2" a value one byte longer than MaxValueLength.
ValueLength(v) == IF v = "2" THEN MaxValueLength + 1 ELSE 1

\* The map[string]string values a provider's Load returns.
Mappings == UNION { [S -> Values] : S \in SUBSET Keys }

----------------------------------------------------------------------------
(* Client: errors and results *)

\* An error, with the context its message carries.
Err(kind, source, provider, key, existing, new) ==
    [kind |-> kind, source |-> source, provider |-> provider,
     key |-> key, existing |-> existing, new |-> new]

NoErr == Err("nil", <<>>, <<>>, "", "", "")

\* A nil *Environment.
NilEnv == [Data |-> EmptyMap, Sources |-> <<>>, isNil |-> TRUE]

\* env := &Environment{Data: make(...), Sources: make(...), client: c}
NewEnv == [Data |-> EmptyMap, Sources |-> <<>>, isNil |-> FALSE]

\* Mutant of LoadError: return env, err
LoadErrorWithEnv(e) == [env |-> env, err |-> e]

\* return nil, err
LoadError(e) == [env |-> NilEnv, err |-> e]

\* return env, nil
LoadOk(e) == [env |-> e, err |-> NoErr]

\* fmt.Errorf("failed to load from source %s: %w", source, err)
WrapSource(source, e) == [e EXCEPT !.source = source]

----------------------------------------------------------------------------
(* Client.parseSource: strings.SplitN(source, ":", 2) *)

\* The index of the last ":" of s at or after i, 0 when there is none.
RECURSIVE IndexLastColon(_, _)
IndexLastColon(s, i) ==
    IF i > Len(s) THEN 0
    ELSE LET later == IndexLastColon(s, i + 1) IN
         IF later # 0 THEN later
         ELSE IF s[i] = ":" THEN i
         ELSE 0

\* The index of the first ":" of s at or after i, 0 when there is none.
RECURSIVE IndexColon(_, _)
IndexColon(s, i) ==
    IF i > Len(s) THEN 0
    ELSE IF s[i] = ":" THEN i
    ELSE IndexColon(s, i + 1)

\* strings.SplitN(s, ":", n): at most n parts, the last one unsplit.
RECURSIVE SplitN(_, _)
SplitN(s, n) ==
    LET i == IndexColon(s, 1) IN
    IF n <= 1 \/ i = 0 THEN <<s>>
    ELSE <<SubSeq(s, 1, i - 1)>> \o SplitN(SubSeq(s, i + 1, Len(s)), n - 1)

parseSource(source) ==
    LET parts == SplitN(source, SourceProviderParts) IN
    IF Len(parts) = MinSourceParts
    THEN [providerName |-> parts[1], sourcePath |-> parts[2]]
    ELSE [providerName |-> DefaultProviderName, sourcePath |-> source]

----------------------------------------------------------------------------
(* Client.mergeConfiguration *)

\* Mutant of ExistingKeyAction: Override keeps the existing value.
ExistingKeyActionOverrideKeeps(strategy) ==
    CASE strategy = "Error"    -> "return error"
      [] strategy = "Preserve" -> "continue"
      [] strategy = "Override" -> "continue"

\* Mutant of ExistingKeyAction: Preserve falls through to the assignment.
ExistingKeyActionPreserveAssigns(strategy) ==
    CASE strategy = "Error"    -> "return error"
      [] strategy = "Preserve" -> "assign"
      [] strategy = "Override" -> "assign"

\* Mutant of ExistingKeyAction: Error falls through to the assignment.
ExistingKeyActionErrorAssigns(strategy) ==
    CASE strategy = "Error"    -> "assign"
      [] strategy = "Preserve" -> "continue"
      [] strategy = "Override" -> "assign"

\* The switch on the strategy for a key that exists in the target.
ExistingKeyAction(strategy) ==
    CASE strategy = "Error"    -> "return error"
      [] strategy = "Preserve" -> "continue"
      [] strategy = "Override" -> "assign"

\* A merge loop that leaves the loop at the first key it keeps (break in
\* place of continue).
RECURSIVE MergeLoopBreak(_, _, _, _)
MergeLoopBreak(target, source, strategy, order) ==
    IF order = <<>> THEN [data |-> target, err |-> NoErr]
    ELSE LET key   == Head(order)
             value == source[key]
             act   == IF key \in DOMAIN target
                      THEN ExistingKeyAction(strategy)
                      ELSE "assign"
         IN  IF act = "return error"
             THEN [data |-> target,
                   err  |-> Err("duplicate key found", <<>>, <<>>,
                                key, target[key], value)]
             ELSE IF act = "continue"
             THEN [data |-> target, err |-> NoErr]
             ELSE MergeLoopBreak(Put(target, key, value), source, strategy,
                                 Tail(order))

\* The loop of mergeConfiguration over the keys of source in the order `order`.
RECURSIVE MergeLoop(_, _, _, _)
MergeLoop(target, source, strategy, order) ==
    IF order = <<>> THEN [data |-> target, err |-> NoErr]
    ELSE LET key   == Head(order)
             value == source[key]
             act   == IF key \in DOMAIN target
                      THEN ExistingKeyAction(strategy)
                      ELSE "assign"
         IN  IF act = "return error"
             THEN [data |-> target,
                   err  |-> Err("duplicate key found", <<>>, <<>>,
                                key, target[key], value)]
             ELSE IF act = "continue"
             THEN MergeLoop(target, source, strategy, Tail(order))
             ELSE MergeLoop(Put(target, key, value), source, strategy, Tail(order))

\* The outcomes of mergeConfiguration(target, source, strategy): Go ranges over
\* source in an unspecified order.
mergeConfiguration(target, source, strategy) ==
    { MergeLoop(target, source, strategy, o) : o \in Orders(DOMAIN source) }

----------------------------------------------------------------------------
(* Client operations *)

\* A call of a Provider method, as the provider sees it.
Call(op, inst, path, ok, data) ==
    [op |-> op, inst |-> inst, path |-> path, ok |-> ok, data |-> data]

\* Mutant of LookupProvider: a name that is not bound on the Client is looked
\* up in the Registry.
LookupProviderInRegistry(bound, providerName) ==
    IF providerName \in DOMAIN bound
    THEN [exists |-> TRUE, provider |-> bound[providerName]]
    ELSE IF IsProviderRegistered(providerName)
    THEN [exists |-> TRUE, provider |-> "P1"]
    ELSE [exists |-> FALSE, provider |-> "nil"]

\* provider, exists := c.providers[providerName]
LookupProvider(bound, providerName) ==
    IF providerName \in DOMAIN bound
    THEN [exists |-> TRUE, provider |-> bound[providerName]]
    ELSE [exists |-> FALSE, provider |-> "nil"]

\* A SourceInfo whose KeyCount is the size of the accumulator.
SourceInfoTotal(source, providerName, originalSize, data) ==
    [Name |-> source, Provider |-> providerName,
     KeyCount |-> Cardinality(DOMAIN data)]

\* The SourceInfo loadFromSource appends after a merge.
SourceInfo(source, providerName, originalSize, data) ==
    [Name |-> source, Provider |-> providerName,
     KeyCount |-> Cardinality(DOMAIN data) - originalSize]

\* Mutant of MergeAndRecord: originalSize is read after the merge.
MergeAndRecordLate(source, providerName, e, config, strategy) ==
    { IF m.err # NoErr
      THEN [env |-> [e EXCEPT !.Data = m.data], err |-> m.err]
      ELSE [env |-> [e EXCEPT !.Data = m.data,
                              !.Sources = Append(@, SourceInfo(source, providerName,
                                                               Cardinality(DOMAIN m.data),
                                                               m.data))],
            err |-> NoErr]
      : m \in mergeConfiguration(e.Data, config, strategy) }

\* What loadFromSource does once provider.Load has returned config.
MergeAndRecord(source, providerName, e, config, strategy) ==
    LET originalSize == Cardinality(DOMAIN e.Data) IN
    { IF m.err # NoErr
      THEN [env |-> [e EXCEPT !.Data = m.data], err |-> m.err]
      ELSE [env |-> [e EXCEPT !.Data = m.data,
                              !.Sources = Append(@, SourceInfo(source, providerName,
                                                               originalSize, m.data))],
            err |-> NoErr]
      : m \in mergeConfiguration(e.Data, config, strategy) }

\* Mutant of CallsMade: a failed Load is retried once.
CallsMadeRetry(inst, path, validateOk, loadOk, config) ==
    IF ~validateOk
    THEN << Call("Validate", inst, path, FALSE, EmptyMap) >>
    ELSE IF ~loadOk
    THEN << Call("Validate", inst, path, TRUE, EmptyMap),
            Call("Load", inst, path, FALSE, config),
            Call("Load", inst, path, FALSE, config) >>
    ELSE << Call("Validate", inst, path, TRUE, EmptyMap),
            Call("Load", inst, path, TRUE, config) >>

\* The provider calls of one loadFromSource: Validate, and Load only when
\* Validate returned nil; each is made once.
CallsMade(inst, path, validateOk, loadOk, config) ==
    IF ~validateOk
    THEN << Call("Validate", inst, path, FALSE, EmptyMap) >>
    ELSE << Call("Validate", inst, path, TRUE, EmptyMap),
            Call("Load", inst, path, loadOk, config) >>

\* Client.loadFromSource: the outcomes of one call, each with the provider
\* calls it makes, the Environment it leaves and the error it returns.  The
\* provider is an external collaborator: its Validate succeeds or fails, its
\* Load fails or returns any mapping.
loadFromSource(source, e, strategy) ==
    LET p     == parseSource(source)
        found == LookupProvider(cProviders, p.providerName)
        inst  == found.provider
        path  == p.sourcePath
    IN  IF ~found.exists
        THEN { [calls |-> <<>>, env |-> e,
                err |-> Err("provider not found", <<>>, p.providerName, "", "", "")] }
        ELSE { [calls |-> CallsMade(inst, path, FALSE, FALSE, EmptyMap), env |-> e,
                err |-> Err("source validation failed", source, <<>>, "", "", "")] }
             \cup
             { [calls |-> CallsMade(inst, path, TRUE, FALSE, EmptyMap), env |-> e,
                err |-> Err("failed to load from provider", <<>>, p.providerName,
                            "", "", "")] }
             \cup
             UNION { { [calls |-> CallsMade(inst, path, TRUE, TRUE, config),
                        env |-> o.env, err |-> o.err]
                       : o \in MergeAndRecord(source, p.providerName, e, config, strategy) }
                     : config \in Mappings }

\* Mutant of ValidatorIsSet: the validator is never run.
ValidatorIsSetNever(v) == FALSE

\* if c.validator != nil
ValidatorIsSet(v) == v # "nil"

\* A Load that runs the validator only when options name a schema.
ShouldValidateSchema(v, options) == ValidatorIsSet(v) /\ options.Schema # ""

\* The condition under which Load calls the validator: it reads the
\* validator field of the Client and nothing of options.
ShouldValidate(v, options) == ValidatorIsSet(v)

\* Mutant of TooManyKeys: the check lets one key too many through.
TooManyKeysOffByOne(data) == Cardinality(DOMAIN data) > MaxEnvironmentKeys + 1

\* len(env.Data) > MaxEnvironmentKeys
TooManyKeys(data) == Cardinality(DOMAIN data) > MaxEnvironmentKeys

\* A cap check that lets one binding too many in.
ClientFullOffByOne(bound) == Cardinality(DOMAIN bound) > ClientMaxProviders

\* if len(c.providers) >= MaxProviders
ClientFull(bound) == Cardinality(DOMAIN bound) >= ClientMaxProviders

\* Client.AddProvider
AddProvider(name, inst) ==
    /\ pc = "idle"
    /\ cProviders' = IF ClientFull(cProviders)
                     THEN cProviders
                     ELSE Put(cProviders, name, inst)
    /\ UNCHANGED <<validator, pc, opts, idx, env, ret, calls, vcalls>>
    /\ UNCHANGED regVars

\* Client.SetValidator
SetValidator(v) ==
    /\ pc = "idle"
    /\ validator' = v
    /\ UNCHANGED <<cProviders, pc, opts, idx, env, ret, calls, vcalls>>
    /\ UNCHANGED regVars

\* The last call on the Client was not AddProvider.
NoAdd == [name |-> <<>>, inst |-> "nil"]

\* Names the callers of the binding specification use.
BindNames == ClientNames \cup { <<"c">> }

\* AddProvider(name, inst), remembered as the call that has just returned.
AddProviderCall(name, inst) ==
    /\ AddProvider(name, inst)
    /\ lastAdd' = [name |-> name, inst |-> inst]
    /\ UNCHANGED bindFrame

\* SetValidator(v) as the call that has just returned.
SetValidatorCall(v) ==
    /\ SetValidator(v)
    /\ lastAdd' = NoAdd
    /\ UNCHANGED bindFrame

\* Client.Load, entry: the options check and the new Environment.
LoadCall(options) ==
    /\ pc = "idle"
    /\ opts' = options
    /\ IF Len(options.Sources) = 0
       THEN /\ ret' = LoadError(Err("no sources specified", <<>>, <<>>, "", "", ""))
            /\ pc' = "returned"
            /\ UNCHANGED <<idx, env>>
       ELSE /\ env' = NewEnv
            /\ idx' = 1
            /\ pc' = "loop"
            /\ UNCHANGED ret
    /\ UNCHANGED <<cProviders, validator, calls, vcalls>>
    /\ UNCHANGED regVars

\* Client.Load, one iteration of the loop over options.Sources.
LoadFromSource ==
    /\ pc = "loop"
    /\ \E o \in loadFromSource(opts.Sources[idx], env, opts.MergeStrategy) :
          /\ calls' = calls \o o.calls
          /\ env' = o.env
          /\ IF o.err # NoErr
             THEN /\ ret' = LoadError(WrapSource(opts.Sources[idx], o.err))
                  /\ pc' = "returned"
                  /\ UNCHANGED idx
             ELSE /\ idx' = idx + 1
                  /\ pc' = IF idx = Len(opts.Sources) THEN "validate" ELSE "loop"
                  /\ UNCHANGED ret
    /\ UNCHANGED <<cProviders, validator, opts, vcalls>>
    /\ UNCHANGED regVars

\* Client.Load, after the loop: the validator, when one is set.
RunValidator ==
    /\ pc = "validate"
    /\ IF ShouldValidate(validator, opts)
       THEN /\ vcalls' = Append(vcalls, env.Data)
            /\ \E ok \in BOOLEAN :
                  IF ok
                  THEN pc' = "size" /\ UNCHANGED ret
                  ELSE /\ ret' = LoadError(Err("validation failed", <<>>, <<>>, "", "", ""))
                       /\ pc' = "returned"
       ELSE /\ pc' = "size"
            /\ UNCHANGED <<ret, vcalls>>
    /\ UNCHANGED <<cProviders, validator, opts, idx, env, calls>>
    /\ UNCHANGED regVars

\* Client.Load, the end: the key-count check and the return of env.
CheckSize ==
    /\ pc = "size"
    /\ ret' = IF TooManyKeys(env.Data)
              THEN LoadError(Err("too many environment keys", <<>>, <<>>, "", "", ""))
              ELSE LoadOk(env)
    /\ pc' = "returned"
    /\ UNCHANGED <<cProviders, validator, opts, idx, env, calls, vcalls>>
    /\ UNCHANGED regVars

\* "Load configuration from local files (.env, JSON, YAML)"
LocalDescription ==
    << "L", "o", "a", "d", " ", "c", "o", "n", "f", "i", "g", "u", "r",
       "a", "t", "i", "o", "n", " ", "f", "r", "o", "m", " ", "l", "o",
       "c", "a", "l", " ", "f", "i", "l", "e", "s", " ", "(", ".", "e",
       "n", "v", ",", " ", "J", "S", "O", "N", ",", " ", "Y", "A", "M",
       "L", ")" >>

\* initializeLocalProvider: registry.Register(localInfo)
initializeLocalProvider ==
    /\ regRet.op = "NewRegistry"
    /\ Register([Name     |-> LocalName,
                 Aliases  |-> << <<"f", "i", "l", "e">>, <<"f", "s">>,
                                 <<"f", "i", "l", "e", "s", "y", "s", "t", "e", "m">> >>,
                 Factory  |-> "factory",
                 Priority |-> HighPriority,
                 RequiredConfig |-> <<>>,
                 Description |-> LocalDescription,
                 isNil    |-> FALSE])

NoOptions == [Sources |-> <<>>, Schema |-> "", MergeStrategy |-> "Override"]

NoReturn == [env |-> NilEnv, err |-> NoErr]

\* The caller is done with what Load returned; the next Load is a new call
\* with a new Environment.
Return ==
    /\ pc = "returned"
    /\ pc' = "idle"
    /\ opts' = NoOptions
    /\ idx' = 0
    /\ env' = NilEnv
    /\ ret' = NoReturn
    /\ calls' = <<>>
    /\ vcalls' = <<>>
    /\ UNCHANGED <<cProviders, validator>>
    /\ UNCHANGED regVars

----------------------------------------------------------------------------
(* The Environment a Load returned, in the hands of its caller: Set and
   Export, and SetExporter on the owning Client. *)

\* Calls of the exporter the model follows for one returned Environment.
MaxExports == 1

Exporters == {"nil", "X1"}

Destinations == {"d1", "d2"}

\* No Export call has returned.
NoExport == [op |-> "none", dest |-> "", err |-> "nil"]

\* An Export that takes every exporter for set.
ExporterIsSetAlways(x) == TRUE

\* if e.client.exporter == nil
ExporterIsSet(x) == x # "nil"

\* Client.SetExporter
SetExporter(x) ==
    /\ pc \in {"idle", "returned"}
    /\ exporter' = x
    /\ UNCHANGED <<regVars, clientVars, ecalls, eret>>
    /\ UNCHANGED envFrame

\* Environment.Set on the Environment Load returned.
Set(key, value) ==
    /\ pc = "returned"
    /\ ~ret.env.isNil
    /\ ret' = [ret EXCEPT !.env.Data = Put(@, key, value)]
    /\ UNCHANGED <<cProviders, validator, pc, opts, idx, env, calls, vcalls>>
    /\ UNCHANGED <<regVars, exporter, ecalls, eret>>
    /\ UNCHANGED envFrame

\* Environment.Export on the Environment Load returned (ExportEnv is Export
\* with a background context).  The exporter is an external collaborator:
\* its Export succeeds or fails.
Export(destination) ==
    /\ pc = "returned"
    /\ ~ret.env.isNil
    /\ ExporterIsSet(exporter) => Len(ecalls) < MaxExports
    /\ IF ~ExporterIsSet(exporter)
       THEN /\ eret' = [op |-> "Export", dest |-> destination,
                        err |-> "no exporter configured"]
            /\ UNCHANGED ecalls
       ELSE \E ok \in BOOLEAN :
              /\ ecalls' = Append(ecalls, [exporter |-> exporter,
                                           data |-> ret.env.Data,
                                           destination |-> destination,
                                           ok |-> ok])
              /\ eret' = [op |-> "Export", dest |-> destination,
                          err |-> IF ok THEN "nil" ELSE "exporter error"]
    /\ UNCHANGED <<regVars, clientVars, exporter>>
    /\ UNCHANGED envFrame

\* The caller is done with the Environment.
ReturnEnv ==
    /\ Return
    /\ ecalls' = <<>>
    /\ eret' = NoExport
    /\ UNCHANGED exporter
    /\ UNCHANGED envFrame

----------------------------------------------------------------------------
(* Two Loads on one Client with the same options, against providers and a
   validator that answer the second Load as they answered the first. *)

\* No earlier Load is remembered.
NoPrev == [set |-> FALSE, opts |-> NoOptions, calls |-> <<>>, vcalls |-> <<>>,
           ret |-> NoReturn]

\* The source lists of the two Loads.
DetSourceLists == { l \in SourceLists : Len(l) <= 2 }

\* The providers answer the calls in c as they answered the earlier Load's.
SameAnswers(c) ==
    prev.set =>
      \A j \in DOMAIN c : j \in DOMAIN prev.calls => c[j] = prev.calls[j]

\* The validator, given the mapping it was given by the earlier Load, gives
\* the verdict it gave then.
SameVerdict(v, rejected) ==
    (prev.set /\ v # <<>> /\ v = prev.vcalls)
       => (rejected = (prev.ret.err.kind = "validation failed"))

\* AddProvider and SetValidator before the first of the two Loads.
ConfigureBeforeLoads ==
    /\ ~prev.set
    /\ \/ \E name \in ClientNames, inst \in Instances : AddProvider(name, inst)
       \/ \E v \in {"nil", "V1"} : SetValidator(v)
    /\ UNCHANGED auxVars

\* The first Load takes any options, the second the options of the first.
LoadCallAgain(options) ==
    /\ prev.set => options = prev.opts
    /\ LoadCall(options)
    /\ UNCHANGED auxVars

LoadFromSourceAgain ==
    /\ LoadFromSource
    /\ SameAnswers(calls')
    /\ UNCHANGED auxVars

RunValidatorAgain ==
    /\ RunValidator
    /\ SameVerdict(vcalls', pc' = "returned")
    /\ UNCHANGED auxVars

CheckSizeAgain ==
    /\ CheckSize
    /\ UNCHANGED auxVars

\* LoadOptions.Schema: no schema file, or the path of one.
Schemas == {"", "schema.json"}

\* The first Load takes any options, the second the options of the first
\* with another Schema.
LoadCallOtherSchema(options) ==
    /\ prev.set => /\ options.Sources = prev.opts.Sources
                   /\ options.MergeStrategy = prev.opts.MergeStrategy
                   /\ options.Schema # prev.opts.Schema
    /\ LoadCall(options)
    /\ UNCHANGED auxVars

\* The first Load has returned and is remembered; after the second the
\* caller starts over.
ReturnRemember ==
    /\ Return
    /\ prev' = IF prev.set THEN NoPrev
               ELSE [set |-> TRUE, opts |-> opts, calls |-> calls,
                     vcalls |-> vcalls, ret |-> ret]
    /\ UNCHANGED detFrame

----------------------------------------------------------------------------
(* The context of a Load: runLoadCommand creates it with a timeout and passes
   it to Client.Load, which passes it on to provider.Load and
   validator.Validate.  Client.Load and loadFromSource never read it. *)

\* The deadline of the context passes, or its cancel function is called:
\* before the Load call or while Load is between two of its steps.
CtxCancel ==
    /\ ~ctxDone
    /\ pc \in {"idle", "loop", "validate", "size"}
    /\ ctxDone' = TRUE
    /\ UNCHANGED ctxFrame

\* The caller makes a new context for its next Load.
CtxRenew ==
    /\ ctxDone
    /\ pc = "idle"
    /\ ctxDone' = FALSE
    /\ UNCHANGED ctxFrame

----------------------------------------------------------------------------
(* Two goroutines that call Load on one Client.  env is a local variable of
   Load that points to an Environment allocated by the call (client.go
   147-151); the Client's providers and validator fields are only read.  A
   step of a goroutine is one iteration of the loop of Load: the providers
   are safe for concurrent use, and no AddProvider, SetValidator or
   SetExporter runs while a Load does. *)

Loaders == {"L1", "L2"}

\* A goroutine that is not in Load.  env and ret.env are pointers: the name
\* of an Environment object of the heap, or "nil".  sets are the Set calls
\* made on the returned Environment; overlapped tells that the other goroutine
\* merged a source between two merges of this one.
IdleLoad ==
    [pc |-> "idle", opts |-> NoOptions, idx |-> 0, env |-> "nil",
     ret |-> [env |-> "nil", err |-> NoErr],
     calls |-> <<>>, vcalls |-> <<>>, sets |-> <<>>, overlapped |-> FALSE]

\* An engine that keeps one accumulator for all Load calls.
AccumulatorShared(t) == "L1"

\* env := &Environment{...}: the object a Load call allocates is its own.
Accumulator(t) == t

\* The options and the provider answers of the two goroutines.
ParSourceLists(t) ==
    IF t = "L1"
    THEN { <<>>, << <<"q">> >>, << LocalName \o <<":", "p">> >>,
           << LocalName \o <<":", "p">>, LocalName \o <<":", "p">> >> }
    ELSE { << LocalName \o <<":", "p">> >>,
           << LocalName \o <<":", "p">>, LocalName \o <<":", "p">> >> }

ParStrategies(t) == IF t = "L1" THEN MergeStrategies ELSE {"Override"}

ParMappings ==
    { m \in Mappings : /\ Cardinality(DOMAIN m) <= 1
                       /\ \A k \in DOMAIN m : m[k] = "1" }

\* AddProvider, SetValidator before the goroutines call Load.
ParConfigure ==
    /\ \A t \in Loaders : ld[t].pc = "idle"
    /\ \/ AddProvider(LocalName, "P1")
       \/ \E v \in {"nil", "V1"} : SetValidator(v)
    /\ UNCHANGED auxVars

\* Client.Load, entry, by goroutine t.
ParLoadCall(t, options) ==
    /\ ld[t].pc = "idle"
    /\ IF Len(options.Sources) = 0
       THEN /\ ld' = [ld EXCEPT ![t].opts = options,
                                ![t].pc = "returned",
                                ![t].ret = [env |-> "nil",
                                            err |-> Err("no sources specified",
                                                        <<>>, <<>>, "", "", "")]]
            /\ UNCHANGED heap
       ELSE /\ heap' = [heap EXCEPT ![Accumulator(t)] = NewEnv]
            /\ ld' = [ld EXCEPT ![t].opts = options,
                                ![t].env = Accumulator(t),
                                ![t].idx = 1,
                                ![t].pc = "loop"]
    /\ UNCHANGED <<regVars, clientVars, parFrame>>

\* Client.Load, one iteration of the loop over options.Sources, by goroutine t.
ParLoadFromSource(t) ==
    /\ ld[t].pc = "loop"
    /\ \E o \in loadFromSource(ld[t].opts.Sources[ld[t].idx], heap[ld[t].env],
                               ld[t].opts.MergeStrategy) :
          /\ \A i \in DOMAIN o.calls : o.calls[i].data \in ParMappings
          /\ heap' = [heap EXCEPT ![ld[t].env] = o.env]
          /\ ld' = [u \in Loaders |->
                     IF u = t
                     THEN IF o.err # NoErr
                          THEN [ld[t] EXCEPT
                                  !.calls = @ \o o.calls,
                                  !.ret = [env |-> "nil",
                                           err |-> WrapSource(ld[t].opts.Sources[ld[t].idx],
                                                              o.err)],
                                  !.pc = "returned"]
                          ELSE [ld[t] EXCEPT
                                  !.calls = @ \o o.calls,
                                  !.idx = @ + 1,
                                  !.pc = IF ld[t].idx = Len(ld[t].opts.Sources)
                                         THEN "validate" ELSE "loop"]
                     ELSE IF ld[u].pc = "loop" /\ ld[u].idx > 1
                          THEN [ld[u] EXCEPT !.overlapped = TRUE]
                          ELSE ld[u]]
    /\ UNCHANGED <<regVars, clientVars, parFrame>>

\* Client.Load, after the loop: the validator, when one is set.
ParRunValidator(t) ==
    /\ ld[t].pc = "validate"
    /\ IF ShouldValidate(validator, ld[t].opts)
       THEN \E ok \in BOOLEAN :
               ld' = [ld EXCEPT
                        ![t].vcalls = Append(@, heap[ld[t].env].Data),
                        ![t].pc = IF ok THEN "size" ELSE "returned",
                        ![t].ret = IF ok THEN @
                                   ELSE [env |-> "nil",
                                         err |-> Err("validation failed",
                                                     <<>>, <<>>, "", "", "")]]
       ELSE ld' = [ld EXCEPT ![t].pc = "size"]
    /\ UNCHANGED <<regVars, clientVars, parFrame, heap>>

\* Client.Load, the end: the key-count check and the return of env.
ParCheckSize(t) ==
    /\ ld[t].pc = "size"
    /\ ld' = [ld EXCEPT
                ![t].pc = "returned",
                ![t].ret = IF TooManyKeys(heap[ld[t].env].Data)
                           THEN [env |-> "nil",
                                 err |-> Err("too many environment keys",
                                             <<>>, <<>>, "", "", "")]
                           ELSE [env |-> ld[t].env, err |-> NoErr]]
    /\ UNCHANGED <<regVars, clientVars, parFrame, heap>>

\* Environment.Set on the Environment goroutine t was returned.
ParSet(t, key, value) ==
    /\ ld[t].pc = "returned"
    /\ ld[t].ret.env # "nil"
    /\ ld[t].sets = <<>>
    /\ heap' = [heap EXCEPT ![ld[t].ret.env].Data = Put(@, key, value)]
    /\ ld' = [ld EXCEPT ![t].sets = Append(@, <<key, value>>)]
    /\ UNCHANGED <<regVars, clientVars, parFrame>>

\* Both goroutines are done with what Load returned.
ParDone ==
    /\ \A t \in Loaders : ld[t].pc = "returned"
    /\ ld' = [t \in Loaders |-> IdleLoad]
    /\ heap' = [c \in Loaders |-> NilEnv]
    /\ UNCHANGED <<regVars, clientVars, parFrame>>

----------------------------------------------------------------------------

InitRegistry ==
    /\ providers = EmptyMap
    /\ aliases = EmptyMap
    /\ regRet = [op |-> "NewRegistry", err |-> "nil"]

\* client.New()
InitClient ==
    /\ cProviders = EmptyMap
    /\ validator = "nil"
    /\ pc = "idle"
    /\ opts = NoOptions
    /\ idx = 0
    /\ env = NilEnv
    /\ ret = NoReturn
    /\ calls = <<>>
    /\ vcalls = <<>>

\* ctx, cancel := context.WithTimeout(context.Background(), loadTimeout)
InitAux ==
    /\ ctxDone = FALSE
    /\ rd = NoRead
    /\ mutex = [w |-> "none", r |-> {}]
    /\ th = [t \in Threads |-> IdleThread]
    /\ held = {}
    /\ lastAdd = NoAdd
    /\ prev = NoPrev
    /\ exporter = "nil"
    /\ ecalls = <<>>
    /\ eret = NoExport
    /\ ld = [t \in Loaders |-> IdleLoad]
    /\ heap = [c \in Loaders |-> NilEnv]
    /\ flt = NoFilter

Init == InitRegistry /\ InitClient /\ InitAux

NextRegistry ==
    \/ \E info \in ProviderInfos \cup {NilInfo} :
          Register(info) /\ UNCHANGED auxVars
    \/ \E name \in RegNames \cup AliasStrings :
          Unregister(name) /\ UNCHANGED auxVars

NextClient ==
    \/ \E name \in ClientNames, inst \in Instances :
          AddProvider(name, inst) /\ UNCHANGED auxVars
    \/ \E v \in {"nil", "V1"} : SetValidator(v) /\ UNCHANGED auxVars
    \/ \E sources \in SourceLists, strategy \in MergeStrategies :
          /\ LoadCall([Sources |-> sources, Schema |-> "", MergeStrategy |-> strategy])
          /\ UNCHANGED auxVars
    \/ (LoadFromSource /\ UNCHANGED auxVars)
    \/ (RunValidator /\ UNCHANGED auxVars)
    \/ (CheckSize /\ UNCHANGED auxVars)
    \/ (Return /\ UNCHANGED auxVars)

Next == NextRegistry \/ NextClient

SpecRegistry == Init /\ [][NextRegistry]_vars

SpecClient == Init /\ [][NextClient]_vars

\* The command-line program: initializeApplication registers the providers
\* before a command creates and uses a Client.
NextApp ==
    \/ (initializeLocalProvider /\ UNCHANGED auxVars)
    \/ (regRet.op # "NewRegistry" /\ NextClient)

SpecApp == Init /\ [][NextApp]_vars

\* Two goroutines that call Load on one Client at the same time.
NextPar ==
    \/ ParConfigure
    \/ \E t \in Loaders :
          \E sources \in ParSourceLists(t), strategy \in ParStrategies(t) :
             ParLoadCall(t, [Sources |-> sources, Schema |-> "", MergeStrategy |-> strategy])
    \/ \E t \in Loaders : ParLoadFromSource(t)
    \/ \E t \in Loaders : ParRunValidator(t)
    \/ \E t \in Loaders : ParCheckSize(t)
    \/ \E key \in Keys : ParSet("L1", key, "2")
    \/ ParDone

SpecPar == Init /\ [][NextPar]_vars

\* The providers command on a registry that holds the local provider, or
\* providers with short names, aliases and descriptions.
FilterInfos ==
    [Name : { <<"a", "b">>, <<"C">> },
     Aliases : { <<>>, << <<"F", "b">> >>, << <<"g">> >> },
     Factory : {"factory"}, Priority : {0}, RequiredConfig : {<<>>},
     Description : { <<>>, <<"f", "g">>, <<"a", " ", "C">> }, isNil : {FALSE}]

Filters ==
    { <<"f">>, <<"F">>, <<"b">>, <<"c">>, <<"g">>, <<"z">>,
      <<"f", "i", "l", "e">>, <<"l", "o", "c", "a", "l">>,
      <<"j", "s", "o", "n">> }

NextFilter ==
    \/ (initializeLocalProvider /\ UNCHANGED auxVars)
    \/ \E info \in FilterInfos :
          /\ regRet.op # "NewRegistry" /\ LocalName \notin DOMAIN providers
          /\ ~flt.called
          /\ Register(info) /\ UNCHANGED auxVars
    \/ \E name \in { <<"a", "b">>, <<"C">>, LocalName } :
          /\ regRet.op # "NewRegistry"
          /\ ~flt.called
          /\ Unregister(name) /\ UNCHANGED auxVars
    \/ \E filter \in Filters : FilterProviders(filter)
    \/ FilterDone

SpecFilter == Init /\ [][NextFilter]_vars

\* A Client whose caller's context may be cancelled at any time.
NextCtx == NextClient \/ CtxCancel \/ CtxRenew

SpecCtx == Init /\ [][NextCtx]_vars

\* A Registry with one caller that registers, unregisters and creates
\* providers, one call after the other.  The caller registers valid
\* ProviderInfo values with at most one alias.
ReadInfos ==
    { info \in ProviderInfos :
        Len(info.Aliases) <= 1 /\ info.Factory # "nil" /\ info.Priority = 0 }

NextReads ==
    \/ \E info \in ReadInfos :
          rd.op = "none" /\ Register(info) /\ UNCHANGED auxVars
    \/ \E name \in RegNames \cup AliasStrings :
          rd.op = "none" /\ Unregister(name) /\ UNCHANGED auxVars
    \/ \E name \in LookupNames, config \in Configs : CreateProvider(name, config)
    \/ ReadDone

SpecReads == Init /\ [][NextReads]_vars

\* A Registry whose callers have more provider names than it has room for.
CapNames == { <<"a">>, <<"b">>, <<"f">> }

CapInfos ==
    [Name : CapNames, Aliases : { <<>>, << <<"g">> >>, << <<"h">> >> },
     Factory : {"factory"}, Priority : {0, HighPriority},
     RequiredConfig : {<<>>}, Description : {<<>>}, isNil : {FALSE}]

NextCapacity ==
    \/ \E info \in CapInfos : Register(info) /\ UNCHANGED auxVars
    \/ \E name \in CapNames : Unregister(name) /\ UNCHANGED auxVars

SpecCapacity == Init /\ [][NextCapacity]_vars

\* The Registry with two goroutines calling its methods.
NextConcurrent ==
    \E t \in Threads :
       \/ \E info \in ConcInfos : CallRegister(t, info)
       \/ \E op \in {"Unregister"} \cup ReadOps, name \in ConcNames :
             CallByName(t, op, name)
       \/ Acquire(t)
       \/ RegisterStep(t)
       \/ UnregisterStep(t)
       \/ ReadStep(t)
       \/ Release(t)

SpecConcurrent == Init /\ [][NextConcurrent]_vars

\* A Registry and one caller that keeps the ProviderInfo pointers it passed
\* to Register and the copies GetProvider returned, and assigns to their
\* fields.
PointerInfos ==
    { info \in ReadInfos : info.Name # <<" ">> /\ info.RequiredConfig = <<>> }

NextPointers ==
    \/ \E info \in PointerInfos : RegisterKeep(info)
    \/ \E name \in RegNames : UnregisterDrop(name)
    \/ \E name \in RegNames, w \in FieldWrites : MutatePassedInfo(name, w)
    \/ \E name \in LookupNames : GetProvider(name)
    \/ \E w \in FieldWrites : MutateReturnedInfo(w)
    \/ ReadDone

SpecPointers == Init /\ [][NextPointers]_vars

\* A Client being configured: AddProvider and SetValidator calls.
NextBind ==
    \/ \E name \in BindNames, inst \in Instances : AddProviderCall(name, inst)
    \/ \E v \in {"nil", "V1"} : SetValidatorCall(v)

SpecBind == Init /\ [][NextBind]_vars

\* A Client that is configured and then loads the same sources twice.
NextTwice ==
    \/ ConfigureBeforeLoads
    \/ \E sources \in DetSourceLists, strategy \in MergeStrategies :
          LoadCallAgain([Sources |-> sources, Schema |-> "", MergeStrategy |-> strategy])
    \/ LoadFromSourceAgain
    \/ RunValidatorAgain
    \/ CheckSizeAgain
    \/ ReturnRemember

SpecTwice == Init /\ [][NextTwice]_vars

\* A Client that is configured and then loads the same sources twice, with
\* two different values of LoadOptions.Schema.
NextSchema ==
    \/ ConfigureBeforeLoads
    \/ \E sources \in DetSourceLists, schema \in Schemas, strategy \in MergeStrategies :
          LoadCallOtherSchema([Sources |-> sources, Schema |-> schema,
                               MergeStrategy |-> strategy])
    \/ LoadFromSourceAgain
    \/ RunValidatorAgain
    \/ CheckSizeAgain
    \/ ReturnRemember

SpecSchema == Init /\ [][NextSchema]_vars

\* A Client that loads one source and a caller that sets keys of the
\* returned Environment and exports it.
EnvSourceLists == { l \in SourceLists : Len(l) <= 1 }

NextEnv ==
    \/ \E inst \in Instances :
          AddProvider(LocalName, inst) /\ UNCHANGED auxVars
    \/ \E sources \in EnvSourceLists :
          /\ LoadCall([Sources |-> sources, Schema |-> "", MergeStrategy |-> "Override"])
          /\ UNCHANGED auxVars
    \/ (LoadFromSource /\ UNCHANGED auxVars)
    \/ (RunValidator /\ UNCHANGED auxVars)
    \/ (CheckSize /\ UNCHANGED auxVars)
    \/ \E x \in Exporters : SetExporter(x)
    \/ \E key \in Keys, value \in Values : Set(key, value)
    \/ \E destination \in Destinations : Export(destination)
    \/ ReturnEnv

SpecEnv == Init /\ [][NextEnv]_vars

\* A Client that loads single sources whose specifiers have no, one or
\* several colons, an empty provider name or an empty path.
ParseSpecifiers ==
    { <<"b", ":", "p">>, <<"b", ":", "p", ":", "q">>, <<"b", ":", ":">>,
      <<"b", ":">>, <<":", "p">>, <<"q">>, <<>>,
      LocalName \o <<":", "p", ":">> }

NextParse ==
    \/ \E name \in ClientNames, inst \in Instances :
          AddProvider(name, inst) /\ UNCHANGED auxVars
    \/ \E source \in ParseSpecifiers, strategy \in MergeStrategies :
          /\ LoadCall([Sources |-> <<source>>, Schema |-> "", MergeStrategy |-> strategy])
          /\ UNCHANGED auxVars
    \/ (LoadFromSource /\ UNCHANGED auxVars)
    \/ (RunValidator /\ UNCHANGED auxVars)
    \/ (CheckSize /\ UNCHANGED auxVars)
    \/ (Return /\ UNCHANGED auxVars)

SpecParse == Init /\ [][NextParse]_vars

Spec == Init /\ [][Next]_vars

----------------------------------------------------------------------------
(* Registry claims *)

\* C1: Register is all-or-nothing: a Register call that returns an error
\* leaves the name->ProviderInfo map and the alias->name map exactly as they
\* were before the call.
C1_RegisterAllOrNothing ==
    [][(regRet'.op = "Register" /\ regRet'.err # "nil")
          => (providers' = providers /\ aliases' = aliases)]_vars

\* C2: after any sequence of Register and Unregister calls no string is a
\* key of the provider-name map and of the alias map at the same time.
C2_KeyspacesDisjoint == (DOMAIN providers) \cap (DOMAIN aliases) = {}

----------------------------------------------------------------------------
(* Client claims: what a caller and the collaborators observe *)

\* The mappings the providers' Load calls returned, in call order.
LoadedMaps ==
    LET ok == SelectSeq(calls, LAMBDA c : c.op = "Load" /\ c.ok)
    IN  [i \in 1..Len(ok) |-> ok[i].data]

KeysOf(maps) == UNION { DOMAIN maps[i] : i \in 1..Len(maps) }

FirstWith(maps, k) ==
    CHOOSE i \in 1..Len(maps) :
        k \in DOMAIN maps[i] /\ \A j \in 1..(i - 1) : k \notin DOMAIN maps[j]

LastWith(maps, k) ==
    CHOOSE i \in 1..Len(maps) :
        k \in DOMAIN maps[i] /\ \A j \in (i + 1)..Len(maps) : k \notin DOMAIN maps[j]

\* The merge of maps the strategies are specified to produce: the last
\* writer of a key wins under Override, the first one otherwise.
MergedOf(maps, strategy) ==
    [k \in KeysOf(maps) |->
        IF strategy = "Override"
        THEN maps[LastWith(maps, k)][k]
        ELSE maps[FirstWith(maps, k)][k]]

\* Load has returned and every source was validated, loaded and merged.
AllSourcesDone ==
    /\ pc = "returned"
    /\ Len(opts.Sources) > 0
    /\ Len(LoadedMaps) = Len(opts.Sources)
    /\ ret.err.kind # "duplicate key found"

\* The provider name of the i-th source is bound on the Client.
Bound(i) == parseSource(opts.Sources[i]).providerName \in DOMAIN cProviders

\* C3: Load returns a non-nil Environment if and only if it returns a nil
\* error; every failing step makes it return a nil Environment.
C3_EnvIffNoError ==
    pc = "returned" =>
        /\ (~ret.env.isNil) <=> (ret.err = NoErr)
        /\ ret.err.kind \in {"no sources specified", "provider not found",
                             "source validation failed", "failed to load from provider",
                             "duplicate key found", "validation failed",
                             "too many environment keys"}
              => ret.env.isNil

\* A Load that fails on a merge conflict after an earlier source was merged.
C3_Witness ==
    /\ pc = "returned"
    /\ ret.err.kind = "duplicate key found"
    /\ Len(env.Sources) >= 1
    /\ env.Data # EmptyMap
    /\ ret.env.isNil

\* C4: under Override a successful Load returns, for every key, the value of
\* the last source that has the key, and the key set is the union of the
\* sources' key sets.
C4_OverrideLastWins ==
    (pc = "returned" /\ opts.MergeStrategy = "Override" /\ ret.err = NoErr) =>
        /\ Len(LoadedMaps) = Len(opts.Sources)
        /\ DOMAIN ret.env.Data = KeysOf(LoadedMaps)
        /\ \A k \in DOMAIN ret.env.Data :
              ret.env.Data[k] = LoadedMaps[LastWith(LoadedMaps, k)][k]

\* Sources [A = {K1: "1"}, B = {K1: "2"}] loaded under Override: K1 = "2".
C4_Witness ==
    /\ pc = "returned" /\ opts.MergeStrategy = "Override" /\ ret.err = NoErr
    /\ LoadedMaps = << [k \in {"K1"} |-> "1"], [k \in {"K1"} |-> "2"] >>
    /\ ret.env.Data = [k \in {"K1"} |-> "2"]

\* C5: under Preserve Load never fails on a duplicate key, and a successful
\* Load returns, for every key, the value of the first source that has the
\* key; the key set is the union of the sources' key sets.
C5_PreserveFirstWins ==
    (pc = "returned" /\ opts.MergeStrategy = "Preserve") =>
        /\ ret.err.kind # "duplicate key found"
        /\ ret.err = NoErr =>
              /\ Len(LoadedMaps) = Len(opts.Sources)
              /\ DOMAIN ret.env.Data = KeysOf(LoadedMaps)
              /\ \A k \in DOMAIN ret.env.Data :
                    ret.env.Data[k] = LoadedMaps[FirstWith(LoadedMaps, k)][k]

\* Sources [A = {K1: "1"}, B = {K1: "2"}] loaded under Preserve: K1 = "1".
C5_Witness ==
    /\ pc = "returned" /\ opts.MergeStrategy = "Preserve" /\ ret.err = NoErr
    /\ LoadedMaps = << [k \in {"K1"} |-> "1"], [k \in {"K1"} |-> "2"] >>
    /\ ret.env.Data = [k \in {"K1"} |-> "1"]

\* C6: under Error, as soon as a provider has returned a mapping with a key
\* that an earlier source supplied, Load has returned: no Environment, a
\* conflict error naming the key, the existing and the incoming value, and
\* no provider call after the Load that returned the mapping.
C6_ErrorAborts ==
    opts.MergeStrategy = "Error" =>
        \A i \in 1..Len(LoadedMaps) :
            LET earlier   == [j \in 1..(i - 1) |-> LoadedMaps[j]]
                conflicts == DOMAIN LoadedMaps[i] \cap KeysOf(earlier)
            IN  conflicts # {} =>
                  /\ pc = "returned"
                  /\ ret.env.isNil
                  /\ ret.err.kind = "duplicate key found"
                  /\ ret.err.key \in conflicts
                  /\ ret.err.existing = earlier[FirstWith(earlier, ret.err.key)][ret.err.key]
                  /\ ret.err.new = LoadedMaps[i][ret.err.key]
                  /\ i = Len(LoadedMaps)
                  /\ Len(calls) = 2 * i
                  /\ calls[Len(calls)].op = "Load"

\* The second of three sources conflicts with the first: the third source's
\* provider is never called.
C6_Witness ==
    /\ pc = "returned" /\ opts.MergeStrategy = "Error"
    /\ Len(opts.Sources) = 3
    /\ \A i \in 1..3 : Bound(i)
    /\ LoadedMaps = << [k \in {"K1"} |-> "1"], [k \in {"K1"} |-> "2"] >>
    /\ ret.err.kind = "duplicate key found"
    /\ ret.err.key = "K1" /\ ret.err.existing = "1" /\ ret.err.new = "2"
    /\ Len(calls) = 4

\* C7: the provider calls are Validate(path_1), Load(path_1), Validate(path_2),
\* Load(path_2), ... on the providers bound to the sources' names, in input
\* order, each at most once; every call but the last succeeded, a failed call
\* ends the Load, and a successful Load has made both calls for every source
\* and returns one SourceInfo per specifier, in input order.
C7_SequentialNoRetry ==
    /\ Len(calls) <= 2 * Len(opts.Sources)
    /\ \A j \in 1..Len(calls) :
          LET i == (j + 1) \div 2
              p == parseSource(opts.Sources[i])
          IN  /\ calls[j].op = (IF j % 2 = 1 THEN "Validate" ELSE "Load")
              /\ calls[j].path = p.sourcePath
              /\ p.providerName \in DOMAIN cProviders
              /\ calls[j].inst = cProviders[p.providerName]
              /\ j < Len(calls) => calls[j].ok
              /\ ~calls[j].ok => (pc = "returned" /\ ret.err # NoErr)
    /\ (pc = "returned" /\ ret.err = NoErr) =>
          /\ Len(calls) = 2 * Len(opts.Sources)
          /\ Len(ret.env.Sources) = Len(opts.Sources)
          /\ \A i \in 1..Len(opts.Sources) :
                /\ ret.env.Sources[i].Name = opts.Sources[i]
                /\ ret.env.Sources[i].Provider = parseSource(opts.Sources[i]).providerName

\* A Load of three sources that stopped at the failing Load of the second.
C7_Witness ==
    /\ pc = "returned"
    /\ Len(opts.Sources) = 3
    /\ \A i \in 1..3 : Bound(i)
    /\ Len(calls) = 4
    /\ ~calls[4].ok
    /\ ret.err.kind = "failed to load from provider"

\* C8: when the first source whose provider name is not bound on the Client is
\* the i-th, Load returns no Environment and makes no provider call for the
\* i-th or a later source; when the sources before it succeeded, the error
\* is "provider not found" with the i-th specifier and its provider name.
C8_UnknownProviderAborts ==
    pc = "returned" =>
        \A i \in 1..Len(opts.Sources) :
            (~Bound(i) /\ \A j \in 1..(i - 1) : Bound(j)) =>
                /\ ret.env.isNil
                /\ ret.err # NoErr
                /\ Len(calls) <= 2 * (i - 1)
                /\ ( /\ Len(calls) = 2 * (i - 1)
                     /\ \A j \in 1..Len(calls) : calls[j].ok
                     /\ ret.err.kind # "duplicate key found" )
                   => /\ ret.err.kind = "provider not found"
                      /\ ret.err.source = opts.Sources[i]
                      /\ ret.err.provider = parseSource(opts.Sources[i]).providerName

\* "local" is registered in the Registry and not bound on the Client: Load
\* of [q, local:p, q] fails at local:p after q was loaded.
C8_Witness ==
    /\ pc = "returned"
    /\ IsProviderRegistered(LocalName)
    /\ LocalName \notin DOMAIN cProviders
    /\ opts.Sources = << <<"q">>, LocalName \o <<":", "p">>, <<"q">> >>
    /\ Len(calls) = 2
    /\ ret.err.kind = "provider not found"
    /\ ret.err.provider = LocalName
    /\ ret.env.isNil

\* C9: with a validator set, Load calls it exactly once when every source was
\* validated, loaded and merged, with the merge of all sources' mappings, and
\* not at all otherwise; it is never called before the last source is merged.
C9_ValidatorOnceOnComplete ==
    /\ Len(vcalls) <= 1
    /\ vcalls # <<>> =>
          /\ validator # "nil"
          /\ pc \in {"size", "returned"}
          /\ Len(LoadedMaps) = Len(opts.Sources)
          /\ vcalls[1] = MergedOf(LoadedMaps, opts.MergeStrategy)
    /\ (AllSourcesDone /\ validator # "nil") => Len(vcalls) = 1
    /\ (pc = "returned" /\ ~AllSourcesDone) => vcalls = <<>>

\* A validator that was run once on the merge of two sources' mappings.
C9_Witness ==
    /\ pc = "returned"
    /\ validator # "nil"
    /\ Len(opts.Sources) = 2
    /\ LoadedMaps = << [k \in {"K1"} |-> "1"], [k \in {"K1"} |-> "2"] >>
    /\ opts.MergeStrategy = "Override"
    /\ vcalls = << [k \in {"K1"} |-> "2"] >>

----------------------------------------------------------------------------
(* Cancellation *)

\* C11: when the context is cancelled before a source is processed, Load
\* returns an error and calls neither Validate nor Load for that source.
C11_CancelStopsLoad ==
    [][(ctxDone /\ pc = "loop")
          => (calls' = calls /\ pc' = "returned" /\ ret'.err # NoErr)]_vars

----------------------------------------------------------------------------
(* Unregister and the reads of the Registry *)

\* No read of the registry with the maps provs and als reports or resolves y.
GoneFromReads(y, provs, als) ==
    /\ ~IsRegisteredIn(y, provs, als)
    /\ \A l \in GetProviderNames(provs, als) : \A i \in DOMAIN l : l[i] # y
    /\ GetProviderResult(y, provs, als).err = "provider not found"
    /\ \A config \in Configs, ok \in BOOLEAN :
          CreateProviderResult(y, config, provs, als, ok).err = "provider not found"

\* C12: Unregister fails and changes nothing when the name is not registered;
\* when it succeeds the provider and every alias Register inserted for it are
\* removed, and no read of the Registry reports or resolves any of them.
C12_UnregisterRemovesAll ==
    [][regRet'.op = "Unregister" =>
         IF regRet'.err # "nil"
         THEN providers' = providers /\ aliases' = aliases
         ELSE \E name \in DOMAIN providers :
                /\ name \notin DOMAIN providers'
                /\ \A y \in {name} \cup {a \in DOMAIN aliases : aliases[a] = name} :
                      GoneFromReads(y, providers', aliases')]_vars

\* C13: for a registered provider n and an alias a of it, CreateProvider,
\* GetProvider and IsProviderRegistered give the same result for a and for n:
\* the same ProviderInfo, the same factory call, the same outcome.
C13_AliasEquivalent ==
    \A a \in DOMAIN aliases :
      LET n == aliases[a] IN
      n \in DOMAIN providers =>
        /\ \A config \in Configs, ok \in BOOLEAN :
              CreateProviderResult(a, config, providers, aliases, ok)
                = CreateProviderResult(n, config, providers, aliases, ok)
        /\ GetProviderResult(a, providers, aliases)
             = GetProviderResult(n, providers, aliases)
        /\ IsRegisteredIn(a, providers, aliases)
             = IsRegisteredIn(n, providers, aliases)

\* The required keys of the provider a CreateProvider call resolves its name
\* to that the call's config does not hold.
MissingKeys(name, config) ==
    LET info == providers[resolveName(name, aliases)] IN
    { info.RequiredConfig[i] : i \in DOMAIN info.RequiredConfig } \ DOMAIN config

\* C14: CreateProvider fails without calling the factory when the name
\* resolves to no registered provider or a required key is absent from config;
\* a factory that is called gets the caller's config, nothing filled in.
C14_CreateProviderChecks ==
    rd.op = "CreateProvider" =>
      /\ (\/ resolveName(rd.name, aliases) \notin DOMAIN providers
          \/ MissingKeys(rd.name, rd.config) # {})
            => (rd.err # "nil" /\ rd.factoryCalls = <<>>)
      /\ \A i \in DOMAIN rd.factoryCalls : rd.factoryCalls[i].config = rd.config

C14_Witness ==
    /\ rd.op = "CreateProvider"
    /\ rd.name \in DOMAIN aliases
    /\ resolveName(rd.name, aliases) \in DOMAIN providers
    /\ MissingKeys(rd.name, rd.config) = {"k1"}
    /\ DOMAIN rd.config = {"k2"}
    /\ rd.err = "configuration validation failed"
    /\ rd.factoryCalls = <<>>

----------------------------------------------------------------------------
(* Capacity of the Registry *)

\* C15: the Registry never holds more than MaxProviders providers, and a
\* Register on a Registry that holds MaxProviders fails and changes nothing.
C15_RegistryCapacity ==
    /\ [](Cardinality(DOMAIN providers) <= RegistryMaxProviders)
    /\ [][(regRet'.op = "Register"
             /\ Cardinality(DOMAIN providers) >= RegistryMaxProviders)
            => (/\ regRet'.err # "nil"
                /\ providers' = providers
                /\ aliases' = aliases)]_vars

C15_Witness ==
    /\ regRet = [op |-> "Register", err |-> "registry is full"]
    /\ Cardinality(DOMAIN providers) = RegistryMaxProviders
    /\ \E name \in CapNames : name \notin DOMAIN providers

----------------------------------------------------------------------------
(* Locking of the Registry *)

\* Goroutine t is between the return of its Lock or RLock and its unlock.
InCriticalSection(t) == th[t].pc \in {"cs", "unlock"}

\* C16: while a Register or Unregister is inside its critical section no
\* other method is inside its own, and the maps a reading method reads do not
\* change between its reads.
C16_ReadersWriterExclusion ==
    \A t \in Threads :
      /\ (InCriticalSection(t) /\ th[t].op \in WriteOps)
            => \A u \in Threads \ {t} : ~InCriticalSection(u)
      /\ (InCriticalSection(t) /\ th[t].op \in ReadOps /\ th[t].i = 1)
            => th[t].seen = <<providers, aliases>>
      /\ th[t].err # "maps changed"

\* A Register has inserted its provider and one of its two aliases while a
\* reading method waits for the lock.
C16_Witness ==
    \E t \in Threads, u \in Threads :
      /\ th[t].pc = "cs" /\ th[t].op = "Register" /\ th[t].i = 2
      /\ Len(th[t].info.Aliases) = 2
      /\ th[u].pc = "lock" /\ th[u].op \in ReadOps

\* Two reading methods are inside their critical sections at once.
ReadsOverlap ==
    \E t \in Threads, u \in Threads :
      /\ t # u
      /\ th[t].pc = "cs" /\ th[t].op \in ReadOps
      /\ th[u].pc = "cs" /\ th[u].op \in ReadOps

----------------------------------------------------------------------------
(* Immutability of registered ProviderInfo values *)

\* Every read of the Registry returns after the step what it returned before.
ReadsUnchanged ==
    /\ \A name \in LookupNames :
         /\ GetProviderResult(name, providers', aliases')
              = GetProviderResult(name, providers, aliases)
         /\ IsRegisteredIn(name, providers', aliases')
              = IsRegisteredIn(name, providers, aliases)
         /\ \A config \in Configs, ok \in BOOLEAN :
              CreateProviderResult(name, config, providers', aliases', ok)
                = CreateProviderResult(name, config, providers, aliases, ok)
    /\ ListProvidersResult(providers') = ListProvidersResult(providers)
    /\ GetProviderNames(providers', aliases') = GetProviderNames(providers, aliases)

\* C17: no step of a caller other than a Register or an Unregister changes
\* what the reads of the Registry return: neither an assignment to a value a
\* read returned nor one to the ProviderInfo that was passed to Register.
C17_InfoImmutable ==
    [][\/ \E info \in PointerInfos : RegisterKeep(info)
       \/ \E name \in RegNames : UnregisterDrop(name)
       \/ ReadsUnchanged]_vars

----------------------------------------------------------------------------
(* The provider bindings of the Client *)

\* C18: the Client never holds more than MaxProviders bindings; AddProvider
\* on a Client that holds MaxProviders changes nothing, also for a name that
\* is bound; below that AddProvider binds the name to the instance, in place
\* of any earlier binding of the name, and leaves the other bindings alone.
C18_ClientBindingCap ==
    /\ [](Cardinality(DOMAIN cProviders) <= ClientMaxProviders)
    /\ [][lastAdd' # NoAdd =>
            IF Cardinality(DOMAIN cProviders) >= ClientMaxProviders
            THEN cProviders' = cProviders
            ELSE /\ DOMAIN cProviders' = DOMAIN cProviders \cup {lastAdd'.name}
                 /\ cProviders'[lastAdd'.name] = lastAdd'.inst
                 /\ \A n \in DOMAIN cProviders \ {lastAdd'.name} :
                       cProviders'[n] = cProviders[n]]_vars

\* AddProvider was called for a bound name with another instance on a full
\* Client, and the binding is the old one.
C18_Witness ==
    /\ lastAdd # NoAdd
    /\ Cardinality(DOMAIN cProviders) = ClientMaxProviders
    /\ lastAdd.name \in DOMAIN cProviders
    /\ cProviders[lastAdd.name] # lastAdd.inst

----------------------------------------------------------------------------
(* Determinism of Load *)

\* C19: of two Loads on one Client with the same sources and strategy,
\* against providers that return the same mappings, either both fail or both
\* return the same Data, whatever the order of the merge loops.
C19_LoadDeterministic ==
    (pc = "returned" /\ prev.set) =>
      /\ (ret.err = NoErr) = (prev.ret.err = NoErr)
      /\ ret.err = NoErr => ret.env.Data = prev.ret.env.Data

\* Both Loads merged the same two-key mappings under Error in different
\* orders: they report different keys, and both fail.
C19_Witness ==
    /\ pc = "returned"
    /\ prev.set
    /\ calls = prev.calls
    /\ Len(calls) = 4
    /\ ret.err.kind = "duplicate key found"
    /\ prev.ret.err.kind = "duplicate key found"
    /\ ret.err.key # prev.ret.err.key

----------------------------------------------------------------------------
(* SourceInfo.KeyCount *)

----------------------------------------------------------------------------
(* Limits on the Data of an Environment *)

\* C21: every key of the Data of an Environment Load returns is at most
\* MaxKeyLength long and every value at most MaxValueLength long.
C21_LengthsEnforced ==
    (pc = "returned" /\ ret.err = NoErr) =>
       \A k \in DOMAIN ret.env.Data :
          /\ KeyLength(k) <= MaxKeyLength
          /\ ValueLength(ret.env.Data[k]) <= MaxValueLength


\* C22: the Environment Load returned never holds more than
\* MaxEnvironmentKeys keys, also after Set calls.
C22_KeyCountCeilingAfterSet ==
    (pc = "returned" /\ ~ret.env.isNil) =>
       Cardinality(DOMAIN ret.env.Data) <= MaxEnvironmentKeys

----------------------------------------------------------------------------
(* Environment.Export *)

\* C24: Export without an exporter on the Client fails and calls no
\* exporter; with one it calls that exporter once, with the current Data and
\* the destination, and returns its result; Data and Sources stay as they are.
C24_ExportDelegates ==
    [][(eret'.op = "Export" /\ <<eret, ecalls>>' # <<eret, ecalls>>) =>
          /\ ret' = ret
          /\ IF exporter = "nil"
             THEN eret'.err = "no exporter configured" /\ ecalls' = ecalls
             ELSE /\ Len(ecalls') = Len(ecalls) + 1
                  /\ SubSeq(ecalls', 1, Len(ecalls)) = ecalls
                  /\ LET c == ecalls'[Len(ecalls')] IN
                       /\ c.exporter = exporter
                       /\ c.data = ret.env.Data
                       /\ c.destination = eret'.dest
                       /\ eret'.err = (IF c.ok THEN "nil" ELSE "exporter error")]_vars

\* An Export with an exporter set, on Data changed by Set, then one after
\* SetExporter(nil): the second fails and the exporter was called once.
C24_Witness ==
    /\ eret = [op |-> "Export", dest |-> "d2", err |-> "no exporter configured"]
    /\ exporter = "nil"
    /\ Len(ecalls) = 1
    /\ ecalls[1].destination = "d1"
    /\ ecalls[1].data # ret.env.Data


----------------------------------------------------------------------------
(* Source specifiers *)

HasColon(s) == \E i \in DOMAIN s : s[i] = ":"

\* providerName and path are the two sides of the first ":" of source, or
\* "default" and the whole of source when it has none.
SplitAtFirstColon(source, providerName, path) ==
    IF HasColon(source)
    THEN /\ providerName \o <<":">> \o path = source
         /\ ~HasColon(providerName)
    ELSE /\ providerName = <<"d", "e", "f", "a", "u", "l", "t">>
         /\ path = source

\* C23: the provider Load looks up and the path it passes to that provider
\* are the two sides of the first ":" of the specifier ("default" and the
\* whole specifier when there is none); the SourceInfo of the source has the
\* specifier as Name and that provider name as Provider.
C23_SplitAtFirstColon ==
    Len(opts.Sources) = 1 =>
      LET source == opts.Sources[1] IN
      /\ \A i \in DOMAIN calls :
            \E providerName \in DOMAIN cProviders :
               /\ SplitAtFirstColon(source, providerName, calls[i].path)
               /\ calls[i].inst = cProviders[providerName]
      /\ ret.err.kind = "provider not found" =>
            /\ ret.err.provider \notin DOMAIN cProviders
            /\ \E k \in 0..Len(source) :
                  SplitAtFirstColon(source, ret.err.provider,
                                    SubSeq(source, k + 1, Len(source)))
      /\ \A i \in DOMAIN env.Sources :
            /\ env.Sources[i].Name = source
            /\ SplitAtFirstColon(source, env.Sources[i].Provider, calls[1].path)

\* A specifier with two colons was loaded: the second colon is in the path.
C23_Witness ==
    /\ pc = "returned"
    /\ ret.err = NoErr
    /\ opts.Sources = << <<"b", ":", "p", ":", "q">> >>
    /\ ret.env.Sources[1].Provider = <<"b">>
    /\ calls[2].path = <<"p", ":", "q">>


----------------------------------------------------------------------------
(* The alias map after Unregister *)

\* C25: every alias in the alias map points to a registered provider.
C25_NoDanglingAlias ==
    \A a \in DOMAIN aliases : aliases[a] \in DOMAIN providers

\* C26: a successful Unregister(name) leaves the entry of every other
\* provider and every alias that points to another provider as they were.
C26_UnregisterFrame ==
    [][(regRet'.op = "Unregister" /\ regRet'.err = "nil") =>
         \E name \in DOMAIN providers :
            /\ name \notin DOMAIN providers'
            /\ \A other \in DOMAIN providers \ {name} :
                  other \in DOMAIN providers' /\ providers'[other] = providers[other]
            /\ \A a \in DOMAIN aliases :
                  aliases[a] # name
                     => (a \in DOMAIN aliases' /\ aliases'[a] = aliases[a])]_vars

----------------------------------------------------------------------------
(* The KeyCounts of a returned Environment *)

\* The sum of the KeyCount fields of a list of SourceInfo values.
RECURSIVE SumKeyCount(_)
SumKeyCount(sources) ==
    IF sources = <<>> THEN 0
    ELSE sources[1].KeyCount + SumKeyCount(Tail(sources))

----------------------------------------------------------------------------
(* Two Load calls at the same time *)

\* The mappings the providers returned to goroutine t.
LoadedBy(t) ==
    LET ok == SelectSeq(ld[t].calls, LAMBDA c : c.op = "Load" /\ c.ok)
    IN  [i \in 1..Len(ok) |-> ok[i].data]

\* The Environments a Load of `sources` that runs alone builds from e when
\* the providers return `maps`.
RECURSIVE AloneEnvs(_, _, _, _)
AloneEnvs(sources, maps, strategy, e) ==
    IF sources = <<>> \/ maps = <<>> THEN {e}
    ELSE UNION { AloneEnvs(Tail(sources), Tail(maps), strategy, o.env)
                 : o \in { x \in MergeAndRecord(Head(sources),
                                                parseSource(Head(sources)).providerName,
                                                e, Head(maps), strategy)
                           : x.err = NoErr } }

\* e after the Set calls in sets.
RECURSIVE AfterSets(_, _)
AfterSets(e, sets) ==
    IF sets = <<>> THEN e
    ELSE AfterSets([e EXCEPT !.Data = Put(@, sets[1][1], sets[1][2])], Tail(sets))

\* C28: an Environment that one of two interleaved Load calls has returned
\* has the Data and the Sources the call builds alone from the answers its
\* own provider calls got, changed only by the Set calls made on it.
C28_LoadsDoNotInterfere ==
    \A t \in Loaders :
       (ld[t].pc = "returned" /\ ld[t].ret.err = NoErr) =>
          /\ ld[t].ret.env # "nil"
          /\ Len(LoadedBy(t)) = Len(ld[t].opts.Sources)
          /\ \E alone \in AloneEnvs(ld[t].opts.Sources, LoadedBy(t),
                                    ld[t].opts.MergeStrategy, NewEnv) :
                heap[ld[t].ret.env] = AfterSets(alone, ld[t].sets)

\* Both goroutines were returned an Environment of two sources, each merged
\* a source between the two merges of the other, the two Environments differ
\* and Set was called on one of them only.
C28_Witness ==
    /\ \A t \in Loaders :
          /\ ld[t].pc = "returned"
          /\ ld[t].ret.err = NoErr
          /\ ld[t].overlapped
          /\ Len(ld[t].opts.Sources) = 2
    /\ ld["L1"].sets # <<>>
    /\ ld["L2"].sets = <<>>
    /\ DOMAIN heap[ld["L1"].ret.env].Data # DOMAIN heap[ld["L2"].ret.env].Data

----------------------------------------------------------------------------
(* LoadOptions.Schema *)

\* Load got as far as the validator.
PastTheLoop ==
    /\ pc = "returned"
    /\ ret.err.kind \in {NoErr.kind, "validation failed", "too many environment keys"}

----------------------------------------------------------------------------
(* The filter of the providers command *)

\* The number of entries of the list s that are x.
CountIn(s, x) == Cardinality({ i \in DOMAIN s : s[i] = x })

\* filter is a case-insensitive substring of the name, of an alias or of the
\* description of the provider the entry resolves to.
Matches(entry, filter) ==
    LET got == GetProviderResult(entry, providers, aliases) IN
    /\ got.err = "nil"
    /\ \/ Contains(ToLower(got.info.Name), ToLower(filter))
       \/ \E i \in DOMAIN got.info.Aliases :
             Contains(ToLower(got.info.Aliases[i]), ToLower(filter))
       \/ Contains(ToLower(got.info.Description), ToLower(filter))

\* C30: every entry of the list given to filterProviders is in its output
\* as often as it is in the list when the filter matches its provider, and
\* not at all otherwise.
C30_FilterOncePerEntry ==
    flt.called =>
       \A i \in DOMAIN flt.allProviders :
          LET entry == flt.allProviders[i] IN
          CountIn(flt.filtered, entry)
             = IF Matches(entry, flt.filter)
               THEN CountIn(flt.allProviders, entry)
               ELSE 0

====
